---- MODULE Spec2Model ----
\* Model of jenkins-top-submitters: the "check" command's validator (checkFile)
\* and the renderers of cmd/utilities.go (writeCSVtoFile, writeDataAsMarkdown,
\* get_columnsWidth).  A string is a sequence of characters, each character a
\* one-character TLA+ string; a table is a sequence of rows, a row a sequence
\* of cells.
EXTENDS Integers, Sequences, FiniteSets, TLC

VARIABLES cmd, input, intro, inFile, outCsv, outMd,
          pc, target, rd, firstLine, records, i, ck,
          width_slice, buf, lineNumber,
          month, isVerbose, monthValid, monthOut

vars == <<cmd, input, intro, inFile, outCsv, outMd,
          pc, target, rd, firstLine, records, i, ck,
          width_slice, buf, lineNumber,
          month, isVerbose, monthValid, monthOut>>

\* The state of a call of isValidMonth.
monthVars == <<month, isVerbose, monthValid, monthOut>>

-----------------------------------------------------------------------------
\* Bounds of the model.

\* Largest number of data rows (rows after the header) of an input table.
MaxDataRows == 2

-----------------------------------------------------------------------------
\* Characters and strings.

Digits == {"0", "1", "2", "3", "4", "5", "6", "7", "8", "9"}

Lower == {"a", "b", "c", "d", "e", "f", "g", "h", "i", "j", "k", "l", "m",
          "n", "o", "p", "q", "r", "s", "t", "u", "v", "w", "x", "y", "z"}

Upper == {"A", "B", "C", "D", "E", "F", "G", "H", "I", "J", "K", "L", "M",
          "N", "O", "P", "Q", "R", "S", "T", "U", "V", "W", "X", "Y", "Z"}

NL == "\n"
QUOTE == "\""
COMMA == ","

\* Number of bytes of the UTF-8 encoding of a character ("é" is U+00E9).
ByteLen(c) == IF c = "é" THEN 2 ELSE 1

RECURSIVE SumBytes(_, _)
SumBytes(s, n) == IF n = 0 THEN 0 ELSE SumBytes(s, n - 1) + ByteLen(s[n])

\* Go's len(string): the number of bytes.
GoLen(s) == SumBytes(s, Len(s))

\* utf8.RuneCountInString: the number of characters.
RuneCount(s) == Len(s)

\* strings.Repeat
Repeat(c, n) == [k \in 1..n |-> c]

RECURSIVE Concat(_)
\* Concatenation of a sequence of strings.
Concat(ss) == IF ss = <<>> THEN <<>> ELSE Head(ss) \o Concat(Tail(ss))

\* Smallest index q in p..Len(s) with s[q] in the set cs, Len(s)+1 when none.
IndexAnyFrom(s, p, cs) ==
    LET hits == {q \in p..Len(s) : s[q] \in cs}
    IN  IF hits = {} THEN Len(s) + 1
        ELSE CHOOSE q \in hits : \A r \in hits : q <= r

-----------------------------------------------------------------------------
\* regexp and strconv

\* month_regexp "20[0-9]{2}-[0-9]{2}" matched at position p of s.
MonthRegexpAt(s, p) ==
    /\ p + 6 <= Len(s)
    /\ s[p] = "2"
    /\ s[p + 1] = "0"
    /\ s[p + 2] \in Digits
    /\ s[p + 3] \in Digits
    /\ s[p + 4] = "-"
    /\ s[p + 5] \in Digits
    /\ s[p + 6] \in Digits

\* month_regexp.MatchString(s): the pattern is not anchored, so it matches
\* when it matches anywhere in s.
MonthRegexpMatch(s) == \E p \in 1..Len(s) : MonthRegexpAt(s, p)

\* name_exp.MatchString(s) for `^[a-zA-Z0-9\-]+$`.
NameExpMatch(s) ==
    /\ Len(s) >= 1
    /\ \A k \in 1..Len(s) : s[k] \in Lower \cup Upper \cup Digits \cup {"-"}

\* The longest identifier checkFile accepts is one byte shorter than this.
NameLenLimit == 40

\* The condition of part_000 line 140 on the first cell of a data row.
SubmitterOk(column) ==
    /\ GoLen(column) < NameLenLimit
    /\ GoLen(column) > 0
    /\ NameExpMatch(column)

RECURSIVE StripZeros(_)
StripZeros(ds) ==
    IF ds # <<>> /\ Head(ds) = "0" THEN StripZeros(Tail(ds)) ELSE ds

DigitVal(c) == CHOOSE v \in 0..9 : ToString(v) = c

RECURSIVE LexLeq(_, _)
\* a <= b for two digit strings of the same length.
LexLeq(a, b) ==
    IF a = <<>> THEN TRUE
    ELSE IF DigitVal(Head(a)) < DigitVal(Head(b)) THEN TRUE
    ELSE IF DigitVal(Head(a)) > DigitVal(Head(b)) THEN FALSE
    ELSE LexLeq(Tail(a), Tail(b))

\* 1<<63 - 1, the largest int of the 64-bit build, as a digit string.
MaxInt64Digits ==
    <<"9","2","2","3","3","7","2","0","3","6","8","5","4","7","7","5","8","0","7">>

\* 1<<63, the magnitude of the smallest int.
MinInt64Digits ==
    <<"9","2","2","3","3","7","2","0","3","6","8","5","4","7","7","5","8","0","8">>

\* Whether the magnitude written by the digits ds fits an int (64 bits).
InIntRange(ds, neg) ==
    LET m == StripZeros(ds)
        lim == IF neg THEN MinInt64Digits ELSE MaxInt64Digits
    IN  \/ Len(m) < Len(lim)
        \/ Len(m) = Len(lim) /\ LexLeq(m, lim)

\* Atoi with the sign forgotten: digits only.
AtoiOkUnsigned(s) ==
    /\ s # <<>>
    /\ \A k \in 1..Len(s) : s[k] \in Digits
    /\ InIntRange(s, FALSE)

\* strconv.Atoi(s) returns a nil error: an optional sign, at least one digit,
\* nothing but digits, and a value in the range of int.
AtoiOk(s) ==
    /\ s # <<>>
    /\ LET signed == s[1] \in {"+", "-"}
           ds == IF signed THEN Tail(s) ELSE s
       IN  /\ ds # <<>>
           /\ \A k \in 1..Len(ds) : ds[k] \in Digits
           /\ InIntRange(ds, s[1] = "-")

-----------------------------------------------------------------------------
\* encoding/csv Writer, as writeCSVtoFile uses it (Comma ',', UseCRLF false).

\* Writer.fieldNeedsQuotes
FieldNeedsQuotes(field) ==
    IF field = <<>> THEN FALSE
    ELSE IF field = <<"\\", ".">> THEN TRUE
    ELSE \/ \E k \in 1..Len(field) : field[k] \in {NL, "\r", QUOTE, COMMA}
         \/ field[1] \in {" ", "\t"}

RECURSIVE EscapeQuotes(_)
\* The body of a quoted field: every quote character doubled.
EscapeQuotes(field) ==
    IF field = <<>> THEN <<>>
    ELSE (IF Head(field) = QUOTE THEN <<QUOTE, QUOTE>> ELSE <<Head(field)>>)
         \o EscapeQuotes(Tail(field))

WriteField(field) ==
    IF FieldNeedsQuotes(field)
    THEN <<QUOTE>> \o EscapeQuotes(field) \o <<QUOTE>>
    ELSE field

RECURSIVE JoinFields(_)
JoinFields(fs) ==
    IF fs = <<>> THEN <<>>
    ELSE IF Len(fs) = 1 THEN fs[1]
    ELSE fs[1] \o <<COMMA>> \o JoinFields(Tail(fs))

\* Writer.Write: the fields separated by commas, then a newline.
WriteRecord(record) ==
    JoinFields([k \in 1..Len(record) |-> WriteField(record[k])]) \o <<NL>>

\* Writer.WriteAll followed by Flush.
WriteAll(rows) == Concat([k \in 1..Len(rows) |-> WriteRecord(rows[k])])

-----------------------------------------------------------------------------
\* encoding/csv Reader, as checkFile uses it (Comma ',', no Comment,
\* LazyQuotes false, TrimLeadingSpace false, FieldsPerRecord 0).  The reader
\* works on the text of the file from position p on.

Min(a, b) == IF a <= b THEN a ELSE b

RECURSIVE SkipEmptyLines(_, _)
\* readRecord's first loop: lines holding nothing but the newline are skipped.
SkipEmptyLines(text, p) ==
    IF p <= Len(text) /\ text[p] = NL THEN SkipEmptyLines(text, p + 1) ELSE p

RECURSIVE ParseFields(_, _, _)
RECURSIVE ParseQuoted(_, _, _, _)

\* readRecord's parseField loop at the start of a field; acc holds the fields
\* read so far.
ParseFields(text, p, acc) ==
    IF p > Len(text) \/ text[p] # QUOTE
    THEN \* non-quoted field: up to the next comma or the end of the line
         LET e == IndexAnyFrom(text, p, {COMMA, NL})
             field == SubSeq(text, p, e - 1)
         IN  IF \E k \in 1..Len(field) : field[k] = QUOTE
             THEN [rec |-> acc, next |-> e, err |-> "ErrBareQuote"]
             ELSE IF e <= Len(text) /\ text[e] = COMMA
             THEN ParseFields(text, e + 1, Append(acc, field))
             ELSE [rec |-> Append(acc, field),
                   next |-> Min(e + 1, Len(text) + 1), err |-> "nil"]
    ELSE ParseQuoted(text, p + 1, <<>>, acc)

\* readRecord inside a quoted field; field holds its characters so far.  The
\* field may run over several lines.
ParseQuoted(text, q, field, acc) ==
    IF q > Len(text)
    THEN [rec |-> acc, next |-> q, err |-> "ErrQuote"]
    ELSE IF text[q] # QUOTE
    THEN ParseQuoted(text, q + 1, Append(field, text[q]), acc)
    ELSE IF q + 1 <= Len(text) /\ text[q + 1] = QUOTE
    THEN ParseQuoted(text, q + 2, Append(field, QUOTE), acc)
    ELSE IF q + 1 <= Len(text) /\ text[q + 1] = COMMA
    THEN ParseFields(text, q + 2, Append(acc, field))
    ELSE IF q + 1 > Len(text) \/ text[q + 1] = NL
    THEN [rec |-> Append(acc, field),
          next |-> Min(q + 2, Len(text) + 1), err |-> "nil"]
    ELSE [rec |-> acc, next |-> q, err |-> "ErrQuote"]

\* Reader.readRecord before the field-count check.
ReadRecord(text, p) ==
    LET s == SkipEmptyLines(text, p)
    IN  IF s > Len(text)
        THEN [rec |-> <<>>, next |-> s, err |-> "EOF"]
        ELSE ParseFields(text, s, <<>>)

\* The reader with the field-count check switched off.
FieldCountUnchecked(n, fpr) == FALSE

\* The field-count check at the end of readRecord: a record of n fields read
\* while FieldsPerRecord is fpr.
FieldCountErr(n, fpr) == fpr > 0 /\ n # fpr

\* csv.NewReader
NewReader == [pos |-> 1, FieldsPerRecord |-> 0]

\* Reader.Read: the next record, the error and the reader afterwards.
Read(text, r) ==
    LET res == ReadRecord(text, r.pos)
    IN  IF res.err = "EOF"
        THEN [rec |-> <<>>, err |-> "EOF", rd |-> [r EXCEPT !.pos = res.next]]
        ELSE [rec |-> res.rec,
              err |-> IF res.err = "nil" /\ FieldCountErr(Len(res.rec), r.FieldsPerRecord)
                      THEN "ErrFieldCount" ELSE res.err,
              rd  |-> [pos |-> res.next,
                       FieldsPerRecord |-> IF r.FieldsPerRecord = 0
                                           THEN Len(res.rec)
                                           ELSE r.FieldsPerRecord]]

RECURSIVE ReadAllFrom(_, _, _)
ReadAllFrom(text, r, acc) ==
    LET res == Read(text, r)
    IN  IF res.err = "EOF" THEN [records |-> acc, err |-> "nil"]
        ELSE IF res.err # "nil" THEN [records |-> <<>>, err |-> res.err]
        ELSE ReadAllFrom(text, res.rd, Append(acc, res.rec))

\* Reader.ReadAll: every remaining record, or the first error and no records.
ReadAll(text, r) == ReadAllFrom(text, r, <<>>)

-----------------------------------------------------------------------------
\* Inputs: the tables an invocation is run on.

Y2020_01 == <<"2", "0", "2", "0", "-", "0", "1">>
Y2099_99 == <<"2", "0", "9", "9", "-", "9", "9">>
X2020_01 == <<"x">> \o Y2020_01
Y2020_1 == <<"2", "0", "2", "0", "-", "1">>

\* A well-formed header, a single-column header, a header whose label is out
\* of the year and month ranges, one whose label has a character before it,
\* one whose label is too short, and a report header with column names (the
\* second one wider than every count).
Headers ==
    { << <<>>, Y2020_01 >>,
      << <<>> >>,
      << <<>>, Y2099_99 >>,
      << <<>>, X2020_01 >>,
      << <<>>, Y2020_1 >>,
      << <<"S", "u", "b">>, Repeat("P", 21) >> }

\* Two valid data rows; rows whose identifier has a character out of the
\* class, is empty, is 40 characters long or is not ASCII; rows whose count is
\* not an integer or does not fit an int; a row of one cell; a row whose
\* identifier holds the characters the CSV writer quotes.
DataRows ==
    { << <<"b", "o", "b", "-", "1">>, <<"1", "2">> >>,
      << <<"A", "l">>, <<"-", "5">> >>,
      << <<"a", "_", "b">>, <<"7">> >>,
      << <<>>, <<"7">> >>,
      << Repeat("a", NameLenLimit), <<"+", "7">> >>,
      << <<"é">>, <<"3">> >>,
      << <<"e", "v", "e">>, <<"x", "1">> >>,
      << <<"m", "a", "x">>, Repeat("9", 20) >>,
      << <<"z", "e", "d">> >>,
      << <<"a", COMMA, QUOTE, NL>>, <<"1">> >> }

\* The empty table, and every header followed by at most MaxDataRows rows.
InputTables ==
    {<<>>} \cup
    { <<h>> \o rs : h \in Headers,
                    rs \in UNION {[1..n -> DataRows] : n \in 0..MaxDataRows} }

RECURSIVE JoinLines(_)
JoinLines(ls) == IF ls = <<>> THEN <<>> ELSE Head(ls) \o <<NL>> \o JoinLines(Tail(ls))

\* The text of an input file that holds the table: one line per row, every
\* cell enclosed in quotes, so that the reader's records are the table's rows
\* (a row of one empty cell included).
FileOf(table) ==
    JoinLines([r \in 1..Len(table) |->
        JoinFields([k \in 1..Len(table[r]) |->
            <<QUOTE>> \o EscapeQuotes(table[r][k]) \o <<QUOTE>>])])

NoFile == [exists |-> FALSE, data |-> <<>>]
FileWith(text) == [exists |-> TRUE, data |-> text]

\* The introduction texts of a Markdown report: none, and a title.
IntroTexts == {<<>>, <<"#", " ", "X">>}

\* What the destination of a Markdown report holds before the run.
OldReports == {NoFile, FileWith(<<[kind |-> "old", text |-> <<"o", "l", "d", NL>>]>>)}

\* The month parameters isValidMonth is called with: the empty string,
\* "latest" in three spellings and with a character after it, months in and out
\* of the years 2010..2029 and the months 01..12, junk, and valid months with
\* a character before or after them.
Months ==
    { <<>>,
      <<"l", "a", "t", "e", "s", "t">>,
      <<"L", "A", "T", "E", "S", "T">>,
      <<"L", "a", "t", "e", "s", "t">>,
      <<"l", "a", "t", "e", "s", "t", "s">>,
      <<"2", "0", "2", "3", "-", "0", "8">>,
      <<"2", "0", "1", "3", "-", "0", "8">>,
      <<"2", "0", "2", "3", "-", "1", "2">>,
      <<"2", "0", "1", "0", "-", "0", "1">>,
      <<"2", "0", "2", "9", "-", "1", "0">>,
      <<"2", "0", "2", "3", "-", "1", "3">>,
      <<"2", "0", "2", "3", "-", "0", "0">>,
      <<"2", "0", "0", "3", "-", "0", "8">>,
      <<"2", "0", "3", "0", "-", "0", "1">>,
      <<"2", "1", "2", "3", "-", "0", "8">>,
      <<"2", "0", "2", "3", "0", "8">>,
      <<"2", "0", "2", "3", "-", "8">>,
      <<"2", "0", "2", "3">>,
      <<"b", "l", "a", "a", "h">>,
      X2020_01,
      Y2020_01 \o <<"1">>,
      Y2020_01 \o <<"-", "1", "5">>,
      Y2020_1 }

Files == {"in", "out"}
NoCheck == [verdict |-> "none", diag |-> <<>>, nChecks |-> 0]

Init ==
    /\ cmd \in {"check", "markdown", "month"}
    /\ input \in (IF cmd = "month" THEN {<<>>} ELSE InputTables)
    /\ month \in (IF cmd = "month" THEN Months ELSE {<<>>})
    /\ isVerbose \in (IF cmd = "month" THEN BOOLEAN ELSE {FALSE})
    /\ monthValid = "none"
    /\ monthOut = <<>>
    /\ intro \in (IF cmd = "markdown" THEN IntroTexts ELSE {<<>>})
    /\ inFile = FileWith(FileOf(input))
    /\ outCsv = NoFile
    /\ outMd \in (IF cmd = "markdown" THEN OldReports ELSE {NoFile})
    /\ pc = "idle"
    /\ target = "in"
    /\ rd = NewReader
    /\ firstLine = <<>>
    /\ records = <<>>
    /\ i = 0
    /\ ck = [f \in Files |-> NoCheck]
    /\ width_slice = <<>>
    /\ buf = <<>>
    /\ lineNumber = 0

-----------------------------------------------------------------------------
\* checkFile (the check command)

File(f) == IF f = "in" THEN inFile ELSE outCsv

\* Lines 97-115: the message of the first header check that fails, "ok" when
\* none does.
HeaderDiag(line) ==
    IF line[1] # <<>> THEN "FirstColumnName"
    ELSE IF \E k \in 2..Len(line) : ~MonthRegexpMatch(line[k]) THEN "ColumnHeader"
    ELSE "ok"

\* The cells of a data line that fail their check (lines 137-151).
BadCells(dataLine) ==
    {k \in 1..Len(dataLine) :
        IF k = 1 THEN ~SubmitterOk(dataLine[k]) ELSE ~AtoiOk(dataLine[k])}

FirstOf(S) == CHOOSE k \in S : \A m \in S : k <= m

\* One iteration of the loop of lines 132-152, for index idx (from 0) of
\* records: the message printed ("ok" when none) and the cells checked.
DataLineCheck(idx, dataLine) ==
    IF idx = 0 THEN [diag |-> "ok", checked |-> 0]
    ELSE IF BadCells(dataLine) = {} THEN [diag |-> "ok", checked |-> Len(dataLine)]
    ELSE [diag |-> IF FirstOf(BadCells(dataLine)) = 1 THEN "Submitter" ELSE "NotInteger",
          checked |-> FirstOf(BadCells(dataLine))]

\* checkFile returns v for file f after printing the message d.
Return(f, v, d) ==
    /\ ck' = [ck EXCEPT ![f].verdict = v, ![f].diag = Append(@, d)]
    /\ pc' = "idle"

\* Lines 71-118: open the file, read the header and check it.
CheckOpen(f) ==
    /\ pc = "idle"
    /\ cmd = "check"
    /\ ck[f].verdict = "none"
    /\ f = "out" => outCsv.exists
    /\ target' = f
    /\ IF ~File(f).exists
       THEN /\ Return(f, "false", "UnableToRead")
            /\ UNCHANGED <<rd, firstLine>>
       ELSE LET res == Read(File(f).data, NewReader)
            IN  IF res.err # "nil"
                THEN /\ Return(f, "false", "LoadError")
                     /\ UNCHANGED <<rd, firstLine>>
                ELSE /\ rd' = res.rd
                     /\ firstLine' = res.rec
                     /\ IF HeaderDiag(res.rec) # "ok"
                        THEN Return(f, "false", HeaderDiag(res.rec))
                        ELSE /\ pc' = "readall"
                             /\ UNCHANGED ck
    /\ UNCHANGED <<cmd, input, intro, inFile, outCsv, outMd, records, i,
                   width_slice, buf, lineNumber>>
    /\ UNCHANGED monthVars

\* Lines 120-124: read every remaining record.
CheckReadAll ==
    /\ pc = "readall"
    /\ LET res == ReadAll(File(target).data, rd)
       IN  IF res.err # "nil"
           THEN /\ Return(target, "false", "LoadError")
                /\ UNCHANGED <<records, i>>
           ELSE /\ records' = res.records
                /\ i' = 0
                /\ pc' = "rows"
                /\ UNCHANGED ck
    /\ UNCHANGED <<cmd, input, intro, inFile, outCsv, outMd, target, rd,
                   firstLine, width_slice, buf, lineNumber>>
    /\ UNCHANGED monthVars

\* Lines 132-152: one iteration of the loop over records.
CheckDataLine ==
    /\ pc = "rows"
    /\ i < Len(records)
    /\ LET res == DataLineCheck(i, records[i + 1])
       IN  IF res.diag # "ok"
           THEN /\ ck' = [ck EXCEPT ![target].verdict = "false",
                                    ![target].diag = Append(@, res.diag),
                                    ![target].nChecks = @ + res.checked]
                /\ pc' = "idle"
                /\ UNCHANGED i
           ELSE /\ ck' = [ck EXCEPT ![target].nChecks = @ + res.checked]
                /\ i' = i + 1
                /\ UNCHANGED pc
    /\ UNCHANGED <<cmd, input, intro, inFile, outCsv, outMd, target, rd,
                   firstLine, records, width_slice, buf, lineNumber>>
    /\ UNCHANGED monthVars

\* Lines 154-161: the loop is over, the table is valid.
CheckSuccess ==
    /\ pc = "rows"
    /\ i = Len(records)
    /\ Return(target, "true", "Success")
    /\ UNCHANGED <<cmd, input, intro, inFile, outCsv, outMd, target, rd,
                   firstLine, records, i, width_slice, buf, lineNumber>>
    /\ UNCHANGED monthVars

-----------------------------------------------------------------------------
\* writeCSVtoFile

\* The table is written to the output file once the input file was checked.
WriteCSVtoFile ==
    /\ pc = "idle"
    /\ cmd = "check"
    /\ ck["in"].verdict # "none"
    /\ ~outCsv.exists
    /\ outCsv' = FileWith(WriteAll(input))
    /\ UNCHANGED <<cmd, input, intro, inFile, outMd, pc, target, rd, firstLine,
                   records, i, ck, width_slice, buf, lineNumber>>
    /\ UNCHANGED monthVars

-----------------------------------------------------------------------------
\* get_columnsWidth

\* Lines 182-186: the widths after one more line of the table.
UpdateWidths(ws, slice_line) ==
    [k \in 1..Len(ws) |->
        IF GoLen(slice_line[k]) > ws[k] THEN GoLen(slice_line[k]) ELSE ws[k]]

RECURSIVE WalkLines(_, _, _, _)
\* Lines 173-187: the loop over the lines from lineNbr on; a line whose number
\* of columns is not the announced one ends it with an error and no widths.
WalkLines(data, lineNbr, ws, announced) ==
    IF lineNbr > Len(data) THEN [width_slice |-> ws, err |-> "nil"]
    ELSE IF Len(data[lineNbr]) # announced
    THEN [width_slice |-> <<>>, err |-> "ColumnMismatch"]
    ELSE WalkLines(data, lineNbr + 1, UpdateWidths(ws, data[lineNbr]), announced)

\* get_columnsWidth of a table with at least one line (line 167 reads line 0).
get_columnsWidth(data) ==
    WalkLines(data, 1, [k \in 1..Len(data[1]) |-> 0], Len(data[1]))

-----------------------------------------------------------------------------
\* writeDataAsMarkdown

\* Sprintf with the sign of the width ignored: always padded on the left.
SprintfPadLeftOnly(width, data) ==
    LET wid == IF width < 0 THEN 0 - width ELSE width
        pad == wid - RuneCount(data)
    IN  IF wid = 0 \/ pad <= 0 THEN data
        ELSE Repeat(" ", pad) \o data

\* fmt.Sprintf("%*s", width, data): data padded with spaces to |width|
\* characters, on the left, or on the right when width is negative.
SprintfPad(width, data) ==
    LET wid == IF width < 0 THEN 0 - width ELSE width
        pad == wid - RuneCount(data)
    IN  IF wid = 0 \/ pad <= 0 THEN data
        ELSE IF width < 0 THEN data \o Repeat(" ", pad)
        ELSE Repeat(" ", pad) \o data

\* Lines 131-139: negative for a cell that is not an integer (left align).
ExactWidth(data, w) == IF ~AtoiOk(data) THEN 0 - w ELSE w

\* The underline with the ':' added to a full run of dashes.
HeaderUnderlineTooLong(exact_width, w) ==
    IF exact_width <= 0 THEN Repeat("-", w)
    ELSE Repeat("-", w) \o <<":">>

\* Lines 144-148: the underline of one column.
HeaderUnderline(exact_width, w) ==
    IF exact_width <= 0 THEN Repeat("-", w)
    ELSE Repeat("-", w - 1) \o <<":">>

\* Line 123: the line whose iteration also writes the underline.
IsHeaderUnderline(lineNbr) == lineNbr = 1

\* The count with the left-aligned case forgotten: always one dash fewer.
RepeatCountAlwaysMarked(exact_width, w) == w - 1

\* Lines 144-148: the count handed to strings.Repeat for one column.
RepeatCount(exact_width, w) == IF exact_width <= 0 THEN w ELSE w - 1

\* Lines 129-150: the iteration fails at run time when a cell has no entry in
\* width_slice (index out of range, lines 135 and 137) or when strings.Repeat
\* is handed a negative count (lines 145 and 147).
LinePanics(lineNbr, dataLine, ws) ==
    \E k \in 1..Len(dataLine) :
        \/ k > Len(ws)
        \/ /\ IsHeaderUnderline(lineNbr)
           /\ RepeatCount(ExactWidth(dataLine[k], ws[k]), ws[k]) < 0

\* Lines 127-154: writeBuffer for a line of the table.
WriteBuffer(dataLine, ws) ==
    <<"|">> \o Concat([k \in 1..Len(dataLine) |->
        <<" ">> \o SprintfPad(ExactWidth(dataLine[k], ws[k]), dataLine[k])
        \o <<" ", "|">>])

\* Lines 128-150: underlineBuffer, built from the cells of the same line.
UnderlineBuffer(dataLine, ws) ==
    <<"|">> \o Concat([k \in 1..Len(dataLine) |->
        <<" ">> \o HeaderUnderline(ExactWidth(dataLine[k], ws[k]), ws[k])
        \o <<" ", "|">>])

Chunk(kind, text) == [kind |-> kind, text |-> text]

\* Lines 103-108: the destination is created, or truncated when it exists.
MdCreate ==
    /\ pc = "idle"
    /\ cmd = "markdown"
    /\ outMd' = FileWith(<<>>)
    /\ buf' = <<>>
    /\ pc' = "md_widths"
    /\ UNCHANGED <<cmd, input, intro, inFile, outCsv, target, rd, firstLine,
                   records, i, ck, width_slice, lineNumber>>
    /\ UNCHANGED monthVars

\* Lines 110-113: the widths; an error is fatal (log.Fatal exits the process,
\* nothing buffered is written), and an empty table is an index out of range.
MdWidths ==
    /\ pc = "md_widths"
    /\ IF input = <<>>
       THEN /\ pc' = "panic"
            /\ UNCHANGED width_slice
       ELSE IF get_columnsWidth(input).err # "nil"
       THEN /\ pc' = "fatal"
            /\ UNCHANGED width_slice
       ELSE /\ pc' = "md_intro"
            /\ width_slice' = get_columnsWidth(input).width_slice
    /\ UNCHANGED <<cmd, input, intro, inFile, outCsv, outMd, target, rd,
                   firstLine, records, i, ck, buf, lineNumber>>
    /\ UNCHANGED monthVars

\* Lines 115-118: the introduction, when there is one.
MdIntro ==
    /\ pc = "md_intro"
    /\ buf' = IF Len(intro) > 0
              THEN Append(buf, Chunk("intro", intro \o <<NL>>))
              ELSE buf
    /\ lineNumber' = 0
    /\ pc' = "md_lines"
    /\ UNCHANGED <<cmd, input, intro, inFile, outCsv, outMd, target, rd,
                   firstLine, records, i, ck, width_slice>>
    /\ UNCHANGED monthVars

\* Lines 120-159: one iteration of the loop over the lines of the table.
MdLine ==
    /\ pc = "md_lines"
    /\ lineNumber < Len(input)
    /\ LET dataLine == input[lineNumber + 1]
           row == Chunk("row", WriteBuffer(dataLine, width_slice) \o <<NL>>)
           underline == Chunk("underline",
                              UnderlineBuffer(dataLine, width_slice) \o <<NL>>)
       IN  IF LinePanics(lineNumber, dataLine, width_slice)
           THEN /\ pc' = "panic"
                /\ UNCHANGED <<buf, lineNumber>>
           ELSE /\ buf' = IF IsHeaderUnderline(lineNumber)
                           THEN buf \o <<underline, row>>
                           ELSE Append(buf, row)
                /\ lineNumber' = lineNumber + 1
                /\ pc' = pc
    /\ UNCHANGED <<cmd, input, intro, inFile, outCsv, outMd, target, rd,
                   firstLine, records, i, ck, width_slice>>
    /\ UNCHANGED monthVars

\* Line 161: the buffer is flushed to the file.
MdFlush ==
    /\ pc = "md_lines"
    /\ lineNumber = Len(input)
    /\ outMd' = FileWith(buf)
    /\ pc' = "md_done"
    /\ UNCHANGED <<cmd, input, intro, inFile, outCsv, target, rd, firstLine,
                   records, i, ck, width_slice, buf, lineNumber>>
    /\ UNCHANGED monthVars

-----------------------------------------------------------------------------
\* isValidMonth

LowerSeq == <<"a", "b", "c", "d", "e", "f", "g", "h", "i", "j", "k", "l", "m",
              "n", "o", "p", "q", "r", "s", "t", "u", "v", "w", "x", "y", "z">>

UpperSeq == <<"A", "B", "C", "D", "E", "F", "G", "H", "I", "J", "K", "L", "M",
              "N", "O", "P", "Q", "R", "S", "T", "U", "V", "W", "X", "Y", "Z">>

\* strings.ToUpper
ToUpper(s) ==
    [k \in 1..Len(s) |->
        IF \E n \in 1..Len(LowerSeq) : LowerSeq[n] = s[k]
        THEN UpperSeq[CHOOSE n \in 1..Len(LowerSeq) : LowerSeq[n] = s[k]]
        ELSE s[k]]

\* regexpMonth `20[12][0-9]-(0[1-9]|1[0-2])` matched at position p of s.
RegexpMonthAt(s, p) ==
    /\ p + 6 <= Len(s)
    /\ s[p] = "2"
    /\ s[p + 1] = "0"
    /\ s[p + 2] \in {"1", "2"}
    /\ s[p + 3] \in Digits
    /\ s[p + 4] = "-"
    /\ \/ s[p + 5] = "0" /\ s[p + 6] \in Digits \ {"0"}
       \/ s[p + 5] = "1" /\ s[p + 6] \in {"0", "1", "2"}

\* regexpMonth.MatchString(s): the pattern is not anchored, so it matches when
\* it matches anywhere in s.
RegexpMonthMatch(s) == \E p \in 1..Len(s) : RegexpMonthAt(s, p)

\* Lines 47-67: the result of isValidMonth and what it prints.
isValidMonth(m, verbose) ==
    IF m = <<>>
    THEN [valid |-> "false", out |-> IF verbose THEN <<"EmptyMonth">> ELSE <<>>]
    ELSE IF ToUpper(m) = <<"L", "A", "T", "E", "S", "T">>
    THEN [valid |-> "true", out |-> <<>>]
    ELSE IF ~RegexpMonthMatch(m)
    THEN [valid |-> "false", out |-> IF verbose THEN <<"NotValidMonth">> ELSE <<>>]
    ELSE [valid |-> "true", out |-> <<>>]

\* A call of isValidMonth on the month parameter.
CallIsValidMonth ==
    /\ pc = "idle"
    /\ cmd = "month"
    /\ monthValid = "none"
    /\ monthValid' = isValidMonth(month, isVerbose).valid
    /\ monthOut' = isValidMonth(month, isVerbose).out
    /\ pc' = "month_done"
    /\ UNCHANGED <<cmd, input, intro, inFile, outCsv, outMd, target, rd,
                   firstLine, records, i, ck, width_slice, buf, lineNumber,
                   month, isVerbose>>

Next ==
    \/ \E f \in Files : CheckOpen(f)
    \/ CheckReadAll
    \/ CheckDataLine
    \/ CheckSuccess
    \/ WriteCSVtoFile
    \/ MdCreate
    \/ MdWidths
    \/ MdIntro
    \/ MdLine
    \/ MdFlush
    \/ CallIsValidMonth

Spec == Init /\ [][Next]_vars

-----------------------------------------------------------------------------
\* The vocabulary of the claims, stated on the table itself.

NameChars == Lower \cup Upper \cup Digits \cup {"-"}

\* A year-month label 20YY-MM, YY in 10..29 and MM in 01..12.
IsYearMonth(cell) ==
    /\ Len(cell) = 7
    /\ cell[1] = "2" /\ cell[2] = "0"
    /\ cell[3] \in {"1", "2"} /\ cell[4] \in Digits
    /\ cell[5] = "-"
    /\ \/ cell[6] = "0" /\ cell[7] \in Digits \ {"0"}
       \/ cell[6] = "1" /\ cell[7] \in {"0", "1", "2"}

WellFormedHeader(t) ==
    /\ t # <<>>
    /\ t[1][1] = <<>>
    /\ \A k \in 2..Len(t[1]) : IsYearMonth(t[1][k])

SameCounts(t) == \A r \in 1..Len(t) : Len(t[r]) = Len(t[1])

Mismatch(t) == \E r \in 1..Len(t) : Len(t[r]) # Len(t[1])

\* 1 to 39 letters, digits or hyphens.
IsIdentifier(cell) ==
    /\ Len(cell) \in 1..(NameLenLimit - 1)
    /\ \A k \in 1..Len(cell) : cell[k] \in NameChars

Unsigned(cell) ==
    IF cell # <<>> /\ cell[1] \in {"+", "-"} THEN Tail(cell) ELSE cell

\* An optionally signed decimal integer, of any magnitude.
IsDecimal(cell) ==
    /\ Unsigned(cell) # <<>>
    /\ \A k \in 1..Len(Unsigned(cell)) : Unsigned(cell)[k] \in Digits

\* A decimal integer whose value is one of int (-2^63 .. 2^63-1).
IsInt(cell) ==
    /\ IsDecimal(cell)
    /\ InIntRange(Unsigned(cell), cell[1] = "-")

DataRowPasses(row) ==
    /\ IsIdentifier(row[1])
    /\ \A k \in 2..Len(row) : IsDecimal(row[k])

ValidTable(t) ==
    /\ WellFormedHeader(t)
    /\ SameCounts(t)
    /\ \A r \in 2..Len(t) : DataRowPasses(t[r])

Returned(f) == ck[f].verdict # "none"

-----------------------------------------------------------------------------
\* C1: when the header is well formed and every row has the header's cell
\* count, checkFile returns true only if every data row, the first one
\* included, has a valid identifier and decimal integers in its other cells.
C1_BadDataRowRejected ==
    (WellFormedHeader(input) /\ SameCounts(input) /\ ck["in"].verdict = "true")
        => \A r \in 2..Len(input) : DataRowPasses(input[r])

\* C2: checkFile returns true only if header cell 0 is empty and every other
\* header cell is, as a whole, a year-month label 20YY-MM with YY in 10..29
\* and MM in 01..12.
C2_MalformedHeaderRejected ==
    ck["in"].verdict = "true" => WellFormedHeader(input)

\* C3 as stated: checkFile returns true for every valid table, the counts
\* being decimal integers of any magnitude.
C3_ValidTableAccepted ==
    (ValidTable(input) /\ Returned("in")) => ck["in"].verdict = "true"

ValidIntTable(t) ==
    /\ ValidTable(t)
    /\ \A r \in 2..Len(t) : \A k \in 2..Len(t[r]) : IsInt(t[r][k])

\* C3 as amended: checkFile returns true for every valid table whose counts
\* are decimal integers in the range of int; a table of a header and no data
\* rows is one of them.
C3_ValidIntTableAccepted ==
    (ValidIntTable(input) /\ Returned("in")) => ck["in"].verdict = "true"

\* A valid table with two data rows, the second one with a signed count, was
\* accepted after its rows were checked.
C3_Witness ==
    /\ ValidIntTable(input)
    /\ Len(input) = 3
    /\ Len(input[3]) = 2
    /\ input[3][2][1] \in {"+", "-"}
    /\ ck["in"].verdict = "true"
    /\ ck["in"].nChecks > 0

\* C4: a table in which some row has a cell count different from the header's
\* is never accepted, and checkFile performs no field-level check and prints
\* no identifier or count message for it.
C4_MismatchBeforeFieldChecks ==
    Mismatch(input) =>
        /\ ck["in"].verdict # "true"
        /\ ck["in"].nChecks = 0
        /\ \A d \in 1..Len(ck["in"].diag) :
               ck["in"].diag[d] \notin {"Submitter", "NotInteger"}

\* A table with a well-formed header, an invalid data row and a row of
\* another cell count was rejected by the read of the rows.
C4_Witness ==
    /\ Mismatch(input)
    /\ WellFormedHeader(input)
    /\ \E r \in 2..Len(input) : Len(input[r]) = Len(input[1]) /\ ~DataRowPasses(input[r])
    /\ ck["in"].verdict = "false"
    /\ ck["in"].diag = <<"LoadError">>

\* C5: when checkFile accepts the input file, it also accepts the file
\* writeCSVtoFile writes from the table.
C5_RoundTripSameVerdict ==
    (ck["in"].verdict = "true" /\ Returned("out")) => ck["out"].verdict = "true"

MaxOf(S) == CHOOSE m \in S : \A n \in S : n <= m

WidthsComputed == pc \in {"md_intro", "md_lines", "md_done"}

\* C6: for a non-empty table whose rows all have the same cell count, the
\* width computation gives no error and one entry per column, the maximum
\* character length of the column's cells.
C6_WidthIsMaxCharLength ==
    (cmd = "markdown" /\ input # <<>> /\ SameCounts(input)
        /\ pc \notin {"idle", "md_widths"})
    => /\ WidthsComputed
       /\ Len(width_slice) = Len(input[1])
       /\ \A k \in 1..Len(width_slice) :
              width_slice[k] = MaxOf({Len(input[r][k]) : r \in 1..Len(input)})

\* C7: when two rows differ in cell count, the width computation gives an
\* error and no widths, no introduction, row or separator is written, and when
\* the run has aborted the destination is as it was before the run (neither
\* created nor truncated).
C7_MismatchAbortsBeforeOutput ==
    (cmd = "markdown" /\ Mismatch(input)) =>
        /\ ~WidthsComputed
        /\ width_slice = <<>>
        /\ buf = <<>>
        /\ pc \notin {"idle", "md_widths"} => (pc = "fatal" /\ outMd \in OldReports)

\* The row chunks written so far, in order.
RowsOf(chunks) == SelectSeq(chunks, LAMBDA c : c.kind = "row")

Spaces(n) == [k \in 1..n |-> " "]

\* A row line in which the cells of the columns in right are padded on the
\* left (right-aligned) and the others on the right (left-aligned).
RowAligned(row, ws, right) ==
    <<"|">> \o Concat([k \in 1..Len(row) |->
        <<" ">>
        \o (IF k \in right THEN Spaces(ws[k] - Len(row[k])) \o row[k]
            ELSE row[k] \o Spaces(ws[k] - Len(row[k])))
        \o <<" ", "|">>])
    \o <<NL>>

\* The row line with every integer cell right-aligned and every other cell
\* left-aligned.
ExpectedRow(row, ws) ==
    RowAligned(row, ws, {k \in 1..Len(row) : IsInt(row[k])})

\* The characters of a row line: the bars, the two spaces of every cell, the
\* widths, and the newline.
RowLineLength(ws) ==
    1 + Len(Concat([k \in 1..Len(ws) |-> Spaces(ws[k] + 3)])) + 1

\* C8: every table row is written as '|' and, for each cell, ' ', the cell
\* padded to its column's width (on the left when it is an integer, on the
\* right otherwise), ' ' and '|'; every row line has the same length and no
\* cell is longer than its column's width.
C8_RowsPaddedAndAligned ==
    WidthsComputed =>
        /\ Len(RowsOf(buf)) = lineNumber
        /\ \A r \in 1..Len(RowsOf(buf)) :
              /\ RowsOf(buf)[r].text = ExpectedRow(input[r], width_slice)
              /\ Len(RowsOf(buf)[r].text) = RowLineLength(width_slice)
              /\ \A k \in 1..Len(input[r]) : Len(input[r][k]) <= width_slice[k]

\* Rows were written in which an integer is narrower than its column and a
\* cell that is no integer is narrower than its column.
C8_Witness ==
    /\ pc = "md_done"
    /\ \E r \in 1..Len(input) : \E k \in 1..Len(input[r]) :
           IsInt(input[r][k]) /\ Len(input[r][k]) < width_slice[k]
    /\ \E r \in 1..Len(input) : \E k \in 1..Len(input[r]) :
           ~IsInt(input[r][k]) /\ input[r][k] # <<>> /\ Len(input[r][k]) < width_slice[k]

Kinds(chunks) == [k \in 1..Len(chunks) |-> chunks[k].kind]

\* C9: the written report holds the introduction when there is one, then the
\* header row, then exactly one separator row, then the data rows.
C9_OneSeparatorAfterHeader ==
    pc = "md_done" =>
        Kinds(outMd.data) =
            (IF intro # <<>> THEN <<"intro">> ELSE <<>>)
            \o <<"row", "underline">>
            \o [k \in 1..(Len(input) - 1) |-> "row"]

Dashes(n) == [k \in 1..n |-> "-"]

UnderlinesOf(chunks) == SelectSeq(chunks, LAMBDA c : c.kind = "underline")

\* The separator whose column k is marked with ':' exactly for the columns of
\* the set right.
ExpectedSeparator(ws, right) ==
    <<"|">> \o Concat([k \in 1..Len(ws) |->
        <<" ">> \o (IF k \in right THEN Dashes(ws[k] - 1) \o <<":">> ELSE Dashes(ws[k]))
        \o <<" ", "|">>])
    \o <<NL>>

\* The columns whose marker is ':' in a separator line.
Marked(text, ws) ==
    CHOOSE right \in SUBSET (1..Len(ws)) : text = ExpectedSeparator(ws, right)

\* C10 as stated: every segment of the separator is as long as its column's
\* width, width-1 dashes and ':' or width dashes, and the marker of a column
\* agrees with how the data cells of that column are aligned: in every data
\* row the cells of the columns marked ':' are right-aligned and the others
\* left-aligned.
C10_MarkerAgreesWithColumn ==
    \A u \in 1..Len(UnderlinesOf(buf)) :
        /\ \E right \in SUBSET (1..Len(width_slice)) :
               UnderlinesOf(buf)[u].text = ExpectedSeparator(width_slice, right)
        /\ \A r \in 2..Len(RowsOf(buf)) :
               RowsOf(buf)[r].text =
                   RowAligned(input[r], width_slice,
                              Marked(UnderlinesOf(buf)[u].text, width_slice))

\* C10 as amended: every segment of the separator is as long as its column's
\* width, and column k is marked with ':' (width-1 dashes, then ':') exactly
\* when the cell of column k in the first data row is an integer, and is
\* width dashes otherwise.
C10_MarkerFollowsFirstDataRow ==
    \A u \in 1..Len(UnderlinesOf(buf)) :
        UnderlinesOf(buf)[u].text =
            ExpectedSeparator(width_slice,
                              {k \in 1..Len(input[2]) : IsInt(input[2][k])})

\* A report was written whose second column holds an integer in the first
\* data row and a cell that is no integer in the second.
C10_Witness ==
    /\ pc = "md_done"
    /\ Len(input) = 3
    /\ Len(UnderlinesOf(outMd.data)) = 1
    /\ Len(input[1]) = 2
    /\ IsInt(input[2][2])
    /\ ~IsInt(input[3][2])

-----------------------------------------------------------------------------
\* C11

\* month equals "latest" ignoring case.
IsLatest(m) ==
    /\ Len(m) = 6
    /\ m[1] \in {"l", "L"} /\ m[2] \in {"a", "A"} /\ m[3] \in {"t", "T"}
    /\ m[4] \in {"e", "E"} /\ m[5] \in {"s", "S"} /\ m[6] \in {"t", "T"}

\* C11: isValidMonth(month, isVerbose) returns true if and only if month
\* equals "latest" ignoring case or month is a string YYYY-MM with the year in
\* 2010..2029 and the month in 01..12; it returns false for the empty string
\* and for every other string, whatever isVerbose is.
C11_ValidIffLatestOrYearMonth ==
    monthValid # "none" =>
        (monthValid = "true" <=> (IsLatest(month) \/ IsYearMonth(month)))

-----------------------------------------------------------------------------
\* C12

\* A non-empty table whose rows all have the same cell count is being written.
WritingEvenTable == cmd = "markdown" /\ input # <<>> /\ SameCounts(input)

\* The dashes of the separator segment of column k: one fewer than the width
\* for a column whose first-data-row cell is an integer, the width otherwise.
DashCount(k) ==
    IF IsInt(input[2][k]) THEN width_slice[k] - 1 ELSE width_slice[k]

\* C12: for a non-empty table whose rows all have the same cell count,
\* writeDataAsMarkdown has no run-time failure and runs to completion: it
\* neither panics nor aborts, a step remains to be taken until the report is
\* flushed, every cell has an entry in the width vector, a column whose
\* first-data-row cell is an integer has width at least 1, a column of width 0
\* is left-aligned, and so every separator segment has a dash count of 0 or
\* more.
C12_NoRuntimeFailure ==
    WritingEvenTable =>
        /\ pc \notin {"panic", "fatal"}
        /\ pc = "md_done" \/ ENABLED Next
        /\ WidthsComputed =>
            /\ \A r \in 1..Len(input) : \A k \in 1..Len(input[r]) :
                   k \in 1..Len(width_slice)
            /\ Len(input) >= 2 =>
                   \A k \in 1..Len(input[2]) :
                       /\ IsInt(input[2][k]) => width_slice[k] >= 1
                       /\ width_slice[k] = 0 =>
                              ExactWidth(input[2][k], width_slice[k]) <= 0
                       /\ DashCount(k) >= 0

\* A report with a separator was written for a table with a column of width 0
\* and a column whose first-data-row cell is an integer.
C12_Witness ==
    /\ WritingEvenTable
    /\ pc = "md_done"
    /\ Len(input) >= 2
    /\ Len(UnderlinesOf(outMd.data)) = 1
    /\ \E k \in 1..Len(input[2]) : width_slice[k] = 0
    /\ \E k \in 1..Len(input[2]) : IsInt(input[2][k])

====
